---------------------------- MODULE Spec2Model ----------------------------
(***************************************************************************)
(* Model of the ngrok wrapper crate (src/src/lib.rs).                      *)
(*                                                                         *)
(* A Builder is configured (https, port), run() spawns the child process   *)
(* and polls the local status API until a tunnel is found or the deadline  *)
(* has passed, and the resulting Tunnel (an Arc<Mutex<Child>> plus the     *)
(* public URL) can be cloned, asked for its status / URL, and dropped.     *)
(* The operating system process is modelled with its own small life cycle  *)
(* (running, signalled, terminated-but-unreaped, reaped).                  *)
(***************************************************************************)
EXTENDS Integers, Sequences, FiniteSets, TLC

(***************************************************************************)
(* Bounds of the model.                                                    *)
(***************************************************************************)
\* number of Tunnel values (the one run() returns plus its clones)
MaxHandles == 2

\* program constants
DeadlineSecs == 5
SleepMs == 300

\* time one poll of the status API may take, in milliseconds
PollDurations == {0, 2700}

\* ports the builder may be given (u16); 303 is a substring of 3030
Ports == {303, 3030}
NoPort == -1

Handles == 1..MaxHandles

(***************************************************************************)
(* Strings are sequences of one-character strings.                         *)
(***************************************************************************)
Digits == <<"0", "1", "2", "3", "4", "5", "6", "7", "8", "9">>
Letters == {"a", "h", "l", "p", "s", "t", "x"}

RECURSIVE to_string(_)
\* u16::to_string: decimal digits, most significant first
to_string(n) ==
    IF n < 10 THEN <<Digits[n + 1]>>
    ELSE to_string(n \div 10) \o <<Digits[(n % 10) + 1]>>

\* str::contains: sub occurs in s as a contiguous substring
contains(s, sub) ==
    \E i \in 1..(Len(s) - Len(sub) + 1) : SubSeq(s, i, i + Len(sub) - 1) = sub

StrHttps == <<"h", "t", "t", "p", "s", ":", "/", "/">>
StrHttp == <<"h", "t", "t", "p", ":", "/", "/">>

\* position of the first ":" of s, 0 when there is none
FirstColon(s) ==
    IF \E i \in 1..Len(s) : s[i] = ":"
    THEN CHOOSE i \in 1..Len(s) : s[i] = ":" /\ \A j \in 1..(i - 1) : s[j] # ":"
    ELSE 0

\* url::Url::parse without a base URL: the text needs a scheme (letters up
\* to the first ":") and may not hold a space; the result keeps the scheme
ParseUrl(s) ==
    LET c == FirstColon(s) IN
    IF c > 1 /\ (\A j \in 1..(c - 1) : s[j] \in Letters)
             /\ (\A j \in 1..Len(s) : s[j] # " ")
    THEN [ok |-> TRUE, scheme |-> SubSeq(s, 1, c - 1), text |-> s]
    ELSE [ok |-> FALSE, scheme |-> <<>>, text |-> s]

(***************************************************************************)
(* Responses of GET http://localhost:4040/api/tunnels.                     *)
(*   body = "none"    : no JSON body (connection refused, error status)    *)
(*   body = "json"    : a JSON value; hasTunnels / isArray describe the    *)
(*                      "tunnels" member, tunnels its entries              *)
(* An entry has an optional string public_url and an optional string       *)
(* config.addr.                                                            *)
(***************************************************************************)
Entry(url, addr) == [hasUrl |-> TRUE, public_url |-> url, hasAddr |-> TRUE, addr |-> addr]
EntryNoAddr(url) == [hasUrl |-> TRUE, public_url |-> url, hasAddr |-> FALSE, addr |-> <<>>]

Addr(p) == StrHttp \o <<"l", ":">> \o to_string(p)

UrlA == StrHttps \o <<"a">>
UrlAPlain == StrHttp \o <<"a">>
UrlX == StrHttps \o <<"x">>
UrlBad == <<"x", " ">> \o StrHttps \o <<"a">>
\* an http URL whose path holds the text "https://"
UrlHttpsInPath == StrHttp \o <<"a", "/">> \o StrHttps

RespConnFail == [body |-> "none", hasTunnels |-> FALSE, isArray |-> FALSE, tunnels |-> <<>>]
RespNoTunnels == [body |-> "json", hasTunnels |-> FALSE, isArray |-> FALSE, tunnels |-> <<>>]
RespNotList == [body |-> "json", hasTunnels |-> TRUE, isArray |-> FALSE, tunnels |-> <<>>]
RespList(es) == [body |-> "json", hasTunnels |-> TRUE, isArray |-> TRUE, tunnels |-> es]

Responses ==
    { RespConnFail, RespNoTunnels, RespNotList,
      RespList(<<>>),
      RespList(<<Entry(UrlAPlain, Addr(3030)), Entry(UrlA, Addr(3030))>>),
      RespList(<<Entry(UrlX, Addr(303))>>),
      RespList(<<Entry(UrlAPlain, Addr(303))>>),
      RespList(<<Entry(UrlHttpsInPath, Addr(3030))>>),
      RespList(<<EntryNoAddr(UrlA), Entry(UrlBad, Addr(3030))>>) }

(***************************************************************************)
(* Errors (enum Error) and results.                                        *)
(***************************************************************************)
OkUrl(u) == [ok |-> TRUE, err |-> "none", url |-> u]
ErrUrl(e) == [ok |-> FALSE, err |-> e, url |-> <<>>]

RECURSIVE find_tunnel_url(_, _, _, _)
\* the first entry from index i on whose public_url contains the scheme and
\* whose config.addr contains the decimal port decides the result
find_tunnel_url(scheme, p, iter, i) ==
    IF i > Len(iter) THEN ErrUrl("TunnelNotFound")
    ELSE LET tunnel == iter[i]
             is_port == tunnel.hasAddr /\ contains(tunnel.addr, to_string(p))
             is_scheme == tunnel.hasUrl /\ contains(tunnel.public_url, scheme)
         IN IF is_scheme /\ is_port
            THEN IF ParseUrl(tunnel.public_url).ok
                 THEN OkUrl(tunnel.public_url)
                 ELSE ErrUrl("MalformedAPIResponse")
            ELSE find_tunnel_url(scheme, p, iter, i + 1)

find_public_url(p, response) ==
    IF response.body # "json" THEN ErrUrl("Io")
    ELSE IF ~(response.hasTunnels /\ response.isArray) THEN ErrUrl("MalformedAPIResponse")
    ELSE find_tunnel_url(StrHttps, p, response.tunnels, 1)

\* Duration::as_secs of a duration given in milliseconds
as_secs(ms) == ms \div 1000


(***************************************************************************)
(* State.                                                                  *)
(***************************************************************************)
VARIABLES
    https,        \* Builder.https: TRUE for Some(()), FALSE for None
    port,         \* Builder.port: NoPort for None
    runPc,        \* "building", "polling" (inside the loop of run), "returned", "failed"
    elapsedMs,    \* started_at.elapsed() in milliseconds while run() is active
    lastPoll,     \* error of the latest failed find_public_url, "none" before
    spawnArgs,    \* arguments given to Command, <<>> before the spawn
    proc,         \* the child: "none", "running", "killed" (SIGKILL sent, not
                  \* yet terminated), "zombie" (terminated, exit status not
                  \* collected), "reaped" (Child.status is Some)
    handles,      \* per Tunnel value: "absent", "live", "dropped"
    public_url,   \* Tunnel.public_url, shared by the clones
    ret,          \* what the latest call returned: [op, h, val]
    seenErr,      \* some status() has returned the exit error
    killSignals,  \* number of kill(2) calls issued by Drop
    extKilled,    \* the child was killed from outside the handle's Drop
    outcomes,     \* number of times the exit status was collected
    mutex,        \* the Mutex around the Child: Free, or the call holding the guard
    response      \* the API response the latest poll of run() received

vars == <<https, port, runPc, elapsedMs, lastPoll, spawnArgs, proc, handles,
          public_url, ret, seenErr, killSignals, extKilled, outcomes, mutex, response>>

\* values of mutex: nobody holds the guard / the call op on Tunnel value h does
Free == [h |-> 0, op |-> "none"]
Held(h, op) == [h |-> h, op |-> op]

Ret(op, h, val) == [op |-> op, h |-> h, val |-> val]

Init ==
    /\ https = FALSE
    /\ port = NoPort
    /\ runPc = "building"
    /\ elapsedMs = 0
    /\ lastPoll = "none"
    /\ spawnArgs = <<>>
    /\ proc = "none"
    /\ handles = [h \in Handles |-> "absent"]
    /\ public_url = <<>>
    /\ ret = Ret("none", 0, "none")
    /\ seenErr = FALSE
    /\ killSignals = 0
    /\ extKilled = FALSE
    /\ outcomes = 0
    /\ mutex = Free
    /\ response = RespConnFail

(***************************************************************************)
(* std::process::Child, as far as the crate uses it.                       *)
(***************************************************************************)
\* try_wait that does not keep the collected status: once the status has been
\* collected the child looks like one that has not exited
try_wait_forgets(p) ==
    IF p = "zombie" THEN [some |-> TRUE, proc |-> "reaped", collected |-> 1]
    ELSE [some |-> FALSE, proc |-> p, collected |-> 0]

\* Child::try_wait: the cached status if there is one, else waitpid(WNOHANG),
\* which collects (and caches) the status of a terminated child
try_wait(p) ==
    IF p = "reaped" THEN [some |-> TRUE, proc |-> "reaped", collected |-> 0]
    ELSE IF p = "zombie" THEN [some |-> TRUE, proc |-> "reaped", collected |-> 1]
    ELSE [some |-> FALSE, proc |-> p, collected |-> 0]

\* kill that signals the pid without looking at the cached status
kill_unguarded(p) ==
    IF p = "running" THEN [signals |-> 1, proc |-> "killed"]
    ELSE [signals |-> 1, proc |-> p]

\* kill that sends nothing (a Drop that only releases its reference)
kill_nothing(p) == [signals |-> 0, proc |-> p]

\* Child::kill: nothing is sent once the status is cached; otherwise
\* kill(pid, SIGKILL), which returns without waiting for the child to die
kill(p) ==
    IF p = "reaped" THEN [signals |-> 0, proc |-> p]
    ELSE IF p = "running" THEN [signals |-> 1, proc |-> "killed"]
    ELSE [signals |-> 1, proc |-> p]

(***************************************************************************)
(* Builder.                                                                *)
(***************************************************************************)
BuilderHttps ==
    /\ runPc = "building"
    /\ https' = TRUE
    /\ UNCHANGED <<port, runPc, elapsedMs, lastPoll, spawnArgs, proc, handles,
                   public_url, ret, seenErr, killSignals, extKilled, outcomes>>
    /\ UNCHANGED <<mutex, response>>

BuilderPort(p) ==
    /\ runPc = "building"
    /\ port' = p
    /\ UNCHANGED <<https, runPc, elapsedMs, lastPoll, spawnArgs, proc, handles,
                   public_url, ret, seenErr, killSignals, extKilled, outcomes>>
    /\ UNCHANGED <<mutex, response>>

\* Validate with the check of https left out
ValidateForgetsHttps(hs, p) ==
    IF p = NoPort THEN "BuilderError(port)" ELSE "ok"

\* the two ok_or(...)? checks at the head of run()
Validate(hs, p) ==
    IF ~hs THEN "BuilderError(https)"
    ELSE IF p = NoPort THEN "BuilderError(port)"
    ELSE "ok"

\* CommandArgs with the selected protocol as the leading argument
CommandArgsHttps(p) == <<"https", to_string(p)>>

\* the arguments run() gives to Command: always "http", then the port
CommandArgs(p) == <<"http", to_string(p)>>

\* run() up to and including Command::spawn
RunSpawn ==
    /\ runPc = "building"
    /\ IF Validate(https, port) # "ok"
       THEN /\ runPc' = "failed"
            /\ ret' = Ret("run", 0, Validate(https, port))
            /\ UNCHANGED <<proc, spawnArgs>>
       ELSE \E spawned \in BOOLEAN :
              IF spawned
              THEN /\ proc' = "running"
                   /\ spawnArgs' = CommandArgs(port)
                   /\ runPc' = "polling"
                   /\ UNCHANGED ret
              ELSE /\ runPc' = "failed"
                   /\ ret' = Ret("run", 0, "SpawnError")
                   /\ UNCHANGED <<proc, spawnArgs>>
    /\ UNCHANGED <<https, port, elapsedMs, lastPoll, handles, public_url,
                   seenErr, killSignals, extKilled, outcomes>>
    /\ UNCHANGED <<mutex, response>>

\* LoopBreaks that gives up on a connection failure at once
LoopBreaksOnIo(r, ms) == r.ok \/ r.err = "Io" \/ as_secs(ms) > DeadlineSecs

\* LoopBreaks without the retry: the first result, Ok or not, is final
LoopBreaksAlways(r, ms) == TRUE

\* the loop leaves with the result r when it is Ok or "as_secs() > 5"
LoopBreaks(r, ms) == r.ok \/ as_secs(ms) > DeadlineSecs

\* one turn of the loop of run(): poll, break or sleep.  On an error the `?`
\* returns it and the local Child is dropped, which neither kills nor waits.
\* started_at is a local of run(): it is gone once a Tunnel is returned.
RunPoll ==
    /\ runPc = "polling"
    /\ \E resp \in Responses, d \in PollDurations :
         LET r == find_public_url(port, resp)
             ms == elapsedMs + d
         IN /\ response' = resp
            /\ IF LoopBreaks(r, ms)
               THEN IF r.ok
                    THEN /\ runPc' = "returned"
                         /\ handles' = [handles EXCEPT ![1] = "live"]
                         /\ public_url' = r.url
                         /\ ret' = Ret("run", 0, "Ok")
                         /\ elapsedMs' = 0
                         /\ UNCHANGED lastPoll
                    ELSE /\ runPc' = "failed"
                         /\ ret' = Ret("run", 0, r.err)
                         /\ elapsedMs' = ms
                         /\ lastPoll' = r.err
                         /\ UNCHANGED <<handles, public_url>>
               ELSE /\ elapsedMs' = ms + SleepMs
                    /\ lastPoll' = r.err
                    /\ UNCHANGED <<runPc, handles, public_url, ret>>
    /\ UNCHANGED <<https, port, spawnArgs, proc, seenErr, killSignals,
                   extKilled, outcomes, mutex>>

(***************************************************************************)
(* Tunnel.                                                                 *)
(***************************************************************************)
\* CallReturns for a status() that waits (wait() in place of try_wait())
CallReturnsOnceExited(op, p) == op = "drop" \/ p \in {"zombie", "reaped"}

\* try_wait (waitpid with WNOHANG) and kill return at once whatever the
\* state of the child: the call holding the guard can always go on
CallReturns(op, p) == TRUE

\* self.proc.lock().unwrap() of status(), public_url() and drop(): the call
\* gets the guard when no other call holds it (no panic while the guard is
\* held, so the mutex is never poisoned)
Lock(h, op) ==
    /\ handles[h] = "live"
    /\ mutex = Free
    /\ mutex' = Held(h, op)
    /\ UNCHANGED <<https, port, runPc, elapsedMs, lastPoll, spawnArgs, proc,
                   handles, public_url, ret, seenErr, killSignals, extKilled,
                   outcomes, response>>

\* StatusResult with the arms of the match exchanged
StatusResultSwapped(some) == IF some THEN "Ok" ELSE "Err"

\* the match of status() on the Option try_wait returned
StatusResult(some) == IF some THEN "Err" ELSE "Ok"

Status(h) ==
    /\ handles[h] = "live"
    /\ mutex = Held(h, "status")
    /\ CallReturns("status", proc)
    /\ mutex' = Free
    /\ UNCHANGED response
    /\ LET w == try_wait(proc) IN
         /\ proc' = w.proc
         /\ outcomes' = outcomes + w.collected
         /\ ret' = Ret("status", h, StatusResult(w.some))
         /\ seenErr' = (seenErr \/ StatusResult(w.some) = "Err")
    /\ UNCHANGED <<https, port, runPc, elapsedMs, lastPoll, spawnArgs, handles,
                   public_url, killSignals, extKilled>>

\* PublicUrlResult without the `?`: the status is evaluated and ignored
PublicUrlResultIgnoresStatus(st) == "Url"

\* public_url(): status()? and then the URL
PublicUrlResult(st) == IF st = "Err" THEN "Err" ELSE "Url"

PublicUrl(h) ==
    /\ handles[h] = "live"
    /\ mutex = Held(h, "public_url")
    /\ CallReturns("public_url", proc)
    /\ mutex' = Free
    /\ UNCHANGED response
    /\ LET w == try_wait(proc) IN
         /\ proc' = w.proc
         /\ outcomes' = outcomes + w.collected
         /\ ret' = Ret("public_url", h, PublicUrlResult(StatusResult(w.some)))
         /\ seenErr' = (seenErr \/ StatusResult(w.some) = "Err")
    /\ UNCHANGED <<https, port, runPc, elapsedMs, lastPoll, spawnArgs, handles,
                   public_url, killSignals, extKilled>>

\* public_url_unchecked(), as_ref() and Display: the URL, no look at the child
PublicUrlUnchecked(h) ==
    /\ handles[h] = "live"
    /\ mutex # Held(h, "drop")
    /\ UNCHANGED <<mutex, response>>
    /\ ret' = Ret("public_url_unchecked", h, "Url")
    /\ UNCHANGED <<https, port, runPc, elapsedMs, lastPoll, spawnArgs, proc,
                   handles, public_url, seenErr, killSignals, extKilled,
                   outcomes>>

\* #[derive(Clone)]: another Tunnel sharing the Arc<Mutex<Child>>
Clone(h) ==
    /\ handles[h] = "live"
    /\ mutex # Held(h, "drop")
    /\ UNCHANGED <<mutex, response>>
    /\ \E g \in Handles :
         /\ handles[g] = "absent"
         /\ handles' = [handles EXCEPT ![g] = "live"]
         /\ ret' = Ret("clone", g, "Ok")
    /\ UNCHANGED <<https, port, runPc, elapsedMs, lastPoll, spawnArgs, proc,
                   public_url, seenErr, killSignals, extKilled, outcomes>>

\* impl Drop for Tunnel: lock, kill, ignore the result
Drop(h) ==
    /\ handles[h] = "live"
    /\ mutex = Held(h, "drop")
    /\ CallReturns("drop", proc)
    /\ mutex' = Free
    /\ UNCHANGED response
    /\ LET k == kill(proc) IN
         /\ proc' = k.proc
         /\ killSignals' = killSignals + k.signals
    /\ handles' = [handles EXCEPT ![h] = "dropped"]
    /\ ret' = Ret("drop", h, "Ok")
    /\ UNCHANGED <<https, port, runPc, elapsedMs, lastPoll, spawnArgs,
                   public_url, seenErr, extKilled, outcomes>>

(***************************************************************************)
(* The child process and its environment.                                  *)
(***************************************************************************)
\* the child terminates on its own
ProcExits ==
    /\ proc = "running"
    /\ proc' = "zombie"
    /\ UNCHANGED <<https, port, runPc, elapsedMs, lastPoll, spawnArgs, handles,
                   public_url, ret, seenErr, killSignals, extKilled, outcomes>>
    /\ UNCHANGED <<mutex, response>>

\* the child is killed by someone else than Drop (the test kills it itself)
ExternalKill ==
    /\ proc = "running"
    /\ proc' = "killed"
    /\ extKilled' = TRUE
    /\ UNCHANGED <<https, port, runPc, elapsedMs, lastPoll, spawnArgs, handles,
                   public_url, ret, seenErr, killSignals, outcomes>>
    /\ UNCHANGED <<mutex, response>>

\* a child that was sent SIGKILL terminates
KillDelivered ==
    /\ proc = "killed"
    /\ proc' = "zombie"
    /\ UNCHANGED <<https, port, runPc, elapsedMs, lastPoll, spawnArgs, handles,
                   public_url, ret, seenErr, killSignals, extKilled, outcomes>>
    /\ UNCHANGED <<mutex, response>>

LockingCalls == {"status", "public_url", "drop"}

Next ==
    \/ BuilderHttps
    \/ \E p \in Ports : BuilderPort(p)
    \/ RunSpawn
    \/ RunPoll
    \/ \E h \in Handles, op \in LockingCalls : Lock(h, op)
    \/ \E h \in Handles : Status(h)
    \/ \E h \in Handles : PublicUrl(h)
    \/ \E h \in Handles : PublicUrlUnchecked(h)
    \/ \E h \in Handles : Clone(h)
    \/ \E h \in Handles : Drop(h)
    \/ ProcExits
    \/ ExternalKill
    \/ KillDelivered

Spec == Init /\ [][Next]_vars

\* the operating system terminates a killed child, the thread inside run()
\* keeps running, a call that holds the guard goes on, and a caller that
\* holds a Tunnel keeps asking for its status and gets the guard when it is
\* released again and again
GuardHolderStep == \E h \in Handles : Status(h) \/ PublicUrl(h) \/ Drop(h)

FairSpec ==
    /\ Spec
    /\ WF_vars(KillDelivered)
    /\ WF_vars(RunPoll)
    /\ WF_vars(GuardHolderStep)
    /\ \A h \in Handles : SF_vars(Lock(h, "status"))

TypeOK ==
    /\ https \in BOOLEAN
    /\ port \in Ports \cup {NoPort}
    /\ runPc \in {"building", "polling", "returned", "failed"}
    /\ elapsedMs \in Nat
    /\ proc \in {"none", "running", "killed", "zombie", "reaped"}
    /\ handles \in [Handles -> {"absent", "live", "dropped"}]
    /\ seenErr \in BOOLEAN
    /\ killSignals \in 0..MaxHandles
    /\ extKilled \in BOOLEAN
    /\ outcomes \in 0..1
    /\ mutex \in {Free} \cup {Held(h, op) : h \in Handles, op \in LockingCalls}
    /\ response \in Responses


(***************************************************************************)
(* Properties.                                                             *)
(***************************************************************************)
AnyLive == \E h \in Handles : handles[h] = "live"
Live == {h \in Handles : handles[h] = "live"}
Terminated == proc \in {"zombie", "reaped"}

\* C1: right after a Drop of a Tunnel has returned, the child process is
\* terminated (never still running).
C1_TeardownComplete ==
    ret.op = "drop" => Terminated

\* C2: when run() has spawned the child and returns an error of the
\* discovery, the child has been terminated; no process is left running.
C2_NoOrphanOnFailedRun ==
    (runPc = "failed" /\ spawnArgs # <<>>) => Terminated

\* C3: with https not selected or the port not set, run() returns a
\* BuilderError and no child is spawned; a spawn needs both fields.
C3_ConfigErrorNoSpawn ==
    (~https \/ port = NoPort) =>
        /\ proc = "none"
        /\ spawnArgs = <<>>
        /\ runPc \in {"building", "failed"}
        /\ runPc = "failed" =>
              /\ ret.op = "run"
              /\ ret.val \in {"BuilderError(https)", "BuilderError(port)"}

C3_Witness ==
    /\ runPc = "failed"
    /\ https
    /\ port = NoPort
    /\ ret = Ret("run", 0, "BuilderError(port)")
    /\ proc = "none"

\* C4: however many clones of a Tunnel are dropped, the kill signal is sent
\* to the child at most once, and a Drop that holds the guard always returns.
C4_TeardownIdempotent ==
    /\ killSignals <= 1
    /\ \A h \in Handles : mutex = Held(h, "drop") => ENABLED Drop(h)

\* C5: once a status() (also the one inside public_url()) has returned the
\* exit error, no later status() returns Ok; and when the child has been
\* killed from outside while a Tunnel is held, a status() eventually returns
\* the exit error (or every Tunnel has been dropped).
C5_ExitErrorSticky ==
    /\ []((seenErr /\ ret.op \in {"status", "public_url"}) => ret.val = "Err")
    /\ ((extKilled /\ AnyLive) ~> (seenErr \/ ~AnyLive))

C5_Witness ==
    /\ extKilled
    /\ seenErr
    /\ ret.op = "status"
    /\ ret.val = "Err"
    /\ killSignals = 0

\* C6 as stated: status() returns the error only after the child has been
\* killed, and the child is alive (or was killed) when run() returns Ok.
C6_OkUntilKilled ==
    /\ []((ret.op = "status" /\ ret.val = "Err") => (extKilled \/ killSignals > 0))
    /\ [][(runPc = "polling" /\ runPc' = "returned") =>
             (proc' = "running" \/ extKilled')]_vars

\* C6 amended: status() returns the error only when the child has exited
\* and its exit status has been collected, that is, every status() called
\* while the child has not exited returns Ok, whatever made it exit.
C6_OkWhileNotExited ==
    (ret.op = "status" /\ ret.val = "Err") => (proc = "reaped" /\ seenErr)

C6_Witness ==
    /\ runPc = "returned"
    /\ ret.op = "status"
    /\ ret.val = "Ok"
    /\ proc = "running"

\* C7 as stated: no accessor of the Tunnel returns the URL once a status()
\* has reported the exit of the child.
C7_NoUrlAfterExit ==
    ret.val = "Url" => ~seenErr

\* C7 amended: public_url() returns the error, never the URL, when the child
\* has terminated at the time of the call, and never returns the URL after a
\* status() has reported the exit.
C7_CheckedUrlOnly ==
    /\ [][\A h \in Handles :
            (PublicUrl(h) /\ Terminated) => ret'.val = "Err"]_vars
    /\ []((ret.op = "public_url" /\ ret.val = "Url") => ~seenErr)

C7_Witness ==
    /\ ret.op = "public_url"
    /\ ret.val = "Err"
    /\ proc = "reaped"
    /\ public_url # <<>>

\* C8: after a poll that found a malformed response run() has returned the
\* MalformedAPIResponse error; no further poll follows it.
C8_MalformedEndsDiscovery ==
    lastPoll = "MalformedAPIResponse" =>
        (runPc = "failed" /\ ret = Ret("run", 0, "MalformedAPIResponse"))

\* C9: the exit outcome of the child is collected at most once, and when
\* the child has terminated and every Tunnel has been released it has been
\* collected exactly once.
C9_ExactlyOneOutcome ==
    /\ outcomes <= 1
    /\ (runPc = "returned" /\ ~AnyLive /\ Terminated) => outcomes = 1

\* C10: at most one component holds the Child, and no Tunnel value takes
\* the guard of the Child to call try_wait or kill on it itself.
C10_SingleOwner ==
    /\ Cardinality(Live) <= 1
    /\ mutex = Free

\* C11: a status() (also the one inside public_url()) that holds the guard
\* can always go on and returns the exit error when the child has terminated
\* and Ok otherwise; whoever holds the guard, a clone in its Drop included,
\* releases it, so no call waits for ever or for the child to terminate.
C11_StatusNeverBlocks ==
    /\ [](\A h \in Handles :
            /\ mutex = Held(h, "status") => ENABLED Status(h)
            /\ mutex = Held(h, "public_url") => ENABLED PublicUrl(h))
    /\ [][\A h \in Handles :
            Status(h) => ret'.val = (IF Terminated THEN "Err" ELSE "Ok")]_vars
    /\ ((mutex # Free) ~> (mutex = Free))

C11_Witness ==
    /\ mutex = Held(1, "status")
    /\ handles[2] = "dropped"
    /\ proc = "killed"

\* the text after the last ":" of an address: its port
AddrPortText(addr) ==
    LET colons == {i \in 1..Len(addr) : addr[i] = ":"}
        last == IF colons = {} THEN 0
                ELSE CHOOSE i \in colons : \A j \in colons : j <= i
    IN SubSeq(addr, last + 1, Len(addr))

SchemeHttps == <<"h", "t", "t", "p", "s">>

\* C12: the URL run() returns is the public_url of an entry of the polled
\* list whose config.addr has exactly the requested port.
C12_PortEquality ==
    runPc = "returned" =>
        \E i \in 1..Len(response.tunnels) :
            /\ response.tunnels[i].public_url = public_url
            /\ response.tunnels[i].hasAddr
            /\ AddrPortText(response.tunnels[i].addr) = to_string(port)

\* C13: the URL run() returns for the https request has the scheme https; a
\* list with only http URLs for the port never satisfies it.
C13_SchemeAware ==
    runPc = "returned" => ParseUrl(public_url).scheme = SchemeHttps

DeadlineMs == DeadlineSecs * 1000
DiscoveryFailed == runPc = "failed" /\ spawnArgs # <<>>
AnyDropped == \E h \in Handles : handles[h] = "dropped"

\* C14: a poll that fails because the API cannot be reached ends run() only
\* when the deadline has passed; before that the loop polls again, and a
\* later poll that finds the tunnel makes run() return Ok with its URL.
C14_ConnFailureRetried ==
    /\ []((lastPoll = "Io" /\ runPc = "failed") => elapsedMs > DeadlineMs)
    /\ []((lastPoll = "Io" /\ runPc = "polling") => ENABLED RunPoll)
    /\ [][(RunPoll /\ lastPoll = "Io" /\ find_public_url(port, response').ok) =>
             /\ runPc' = "returned"
             /\ ret' = Ret("run", 0, "Ok")
             /\ public_url' = find_public_url(port, response').url]_vars

C14_Witness ==
    /\ lastPoll = "Io"
    /\ runPc = "returned"
    /\ public_url = UrlA
    /\ handles[1] = "live"

\* C15: when discovery ends at the deadline after a poll that failed to
\* connect or found no match, run() returns the TunnelNotFound error.
C15_TimeoutIsNotFound ==
    (DiscoveryFailed /\ lastPoll \in {"Io", "TunnelNotFound"}) =>
        ret = Ret("run", 0, "TunnelNotFound")

\* C16: a Drop after a status() has returned the exit error sends no signal
\* and leaves the child as it is, and it returns without waiting.
C16_DropAfterExitNoop ==
    /\ [][\A h \in Handles :
            (Drop(h) /\ seenErr) => (killSignals' = killSignals /\ proc' = proc)]_vars
    /\ [](\A h \in Handles : mutex = Held(h, "drop") => ENABLED Drop(h))

C16_Witness ==
    /\ seenErr
    /\ ret.op = "drop"
    /\ killSignals = 0
    /\ proc = "reaped"

\* C17: once the child is spawned the loop of run() ends: it returns a
\* Tunnel, which exists only after a poll has succeeded (and so after the
\* spawn), or an error, and an error only once the deadline has passed; the
\* elapsed time of a run still polling stays below the deadline plus a sleep.
C17_DiscoveryCompletes ==
    /\ ((runPc = "polling") ~> (runPc \in {"returned", "failed"}))
    /\ [](DiscoveryFailed => (elapsedMs > DeadlineMs /\ lastPoll # "none"))
    /\ [](runPc = "polling" => elapsedMs < DeadlineMs + 1000 + SleepMs)
    /\ []((\E h \in Handles : handles[h] # "absent") =>
            /\ runPc = "returned"
            /\ spawnArgs # <<>>
            /\ find_public_url(port, response) = OkUrl(public_url))

C17_Witness ==
    /\ DiscoveryFailed
    /\ lastPoll = "TunnelNotFound"
    /\ elapsedMs > DeadlineMs

\* C18 as stated: the leading argument of the spawned command is the
\* selected protocol, https when https() was called.
C18_ProtocolIsArgument ==
    spawnArgs # <<>> =>
        spawnArgs = <<IF https THEN "https" ELSE "http", to_string(port)>>

\* C18 amended: a spawn happens only with https selected, and the command
\* is always given "http" and the decimal port.
C18_ArgumentIsHttp ==
    spawnArgs # <<>> => (https /\ spawnArgs = <<"http", to_string(port)>>)

C18_Witness ==
    /\ https
    /\ port = 3030
    /\ spawnArgs = <<"http", <<"3", "0", "3", "0">>>>
    /\ proc = "running"

\* C19: no poll is started after a failed poll that completed more than
\* 5 seconds (plus one interval of 300 ms) after the start of run().
C19_GivesUpAfterFiveSeconds ==
    (runPc = "polling" /\ lastPoll # "none") =>
        elapsedMs - SleepMs <= DeadlineMs + SleepMs

\* C20 as stated: once a clone has been dropped the child has been sent a
\* kill and is not running.
C20_DropSendsKill ==
    AnyDropped => (killSignals >= 1 /\ proc # "running")

\* C20 amended: once a clone has been dropped the child is not running: it
\* has been sent a kill, unless its exit status had been collected before;
\* and every clone that stays alive eventually gets the exit error from
\* status() or public_url().
C20_DropTearsDownAll ==
    /\ [](AnyDropped =>
            /\ proc \in {"killed", "zombie", "reaped"}
            /\ (killSignals >= 1 \/ proc = "reaped"))
    /\ \A h \in Handles :
         (AnyDropped /\ handles[h] = "live") ~>
             (handles[h] # "live" \/ (ret.h = h /\ ret.val = "Err"))

C20_Witness ==
    /\ handles[1] = "dropped"
    /\ handles[2] = "live"
    /\ ret = Ret("status", 2, "Err")
    /\ killSignals = 1

=============================================================================
